---- MODULE Spec2Model ----
(***************************************************************************)
(* Twitter Vault: the import normalizer (processTwillotJson), the Dexie    *)
(* store (TwitterVaultDB.items), the read paths (exportData, the feed      *)
(* query, the ActivityGraph query) and the batched media archiver          *)
(* (downloadMediaZip).                                                     *)
(*                                                                         *)
(* JavaScript strings that the code takes apart (ids, file names) are      *)
(* sequences of one-character strings; strings the code only copies are    *)
(* TLA+ strings.  A JavaScript object is a record whose DOMAIN is the set  *)
(* of keys it has; a missing key reads as undefined.  A Date is            *)
(* [valid, ms]; a JSON scalar of mixed type is a record tagged by its      *)
(* type: [num |-> n], [iso |-> ms] (a parseable date string),              *)
(* [str |-> s] (any other string), [null |-> TRUE].                        *)
(***************************************************************************)
EXTENDS Integers, Sequences, FiniteSets, TLC

VARIABLES
    store,      \* db.items: the set of stored TweetItem rows
    now,        \* the wall clock read by new Date()
    dialog,     \* App's dialog state after handleFileUpload
    download    \* the file last saved by exportData (downloadFile)

\* one call of downloadMediaZip(items, authorHandle, onProgress)
VARIABLES
    zipItems,       \* the argument items
    pc,             \* where the call is: idle, loop, generating, done
    loopI,          \* the loop variable i
    fetches,        \* the download units issued so far, each with its status
    totalFiles,
    processedCount,
    successCount,
    progress,       \* the calls of onProgress so far, as <<current, total>>
    folder,         \* the files of the zip folder
    result,         \* what the call returned or threw
    alerted,        \* the text shown by alert()
    saved           \* the zip file handed to the browser for download

\* one entry under the map callback of processTwillotJson
VARIABLES
    rawEntry,       \* the entry
    normalized      \* the TweetItem made from it, once it is made

\* one ActivityGraph component
VARIABLES
    graphItems,     \* items: the rows of the live query, as an array
    selectedYear,
    graphMemo       \* what useMemo returned or threw at the last render

storeVars == <<store, now, dialog, download>>
graphVars == <<graphItems, selectedYear, graphMemo>>
normVars == <<rawEntry, normalized>>
zipVars == <<zipItems, pc, loopI, fetches, totalFiles, processedCount,
             successCount, progress, folder, result, alerted, saved>>
vars == <<storeVars, zipVars, normVars, graphVars>>

-----------------------------------------------------------------------------
(* Bounds of the model *)

\* the clock stops advancing here
MaxClock == 2
\* longest input file, in entries
MaxFileLen == 2
\* deepest nesting of jsonBlob inside jsonBlob that a restore may create
MaxNest == 1

-----------------------------------------------------------------------------
(* Strings as character sequences *)

Undefined == "<undefined>"

bookmark_ == <<"b", "o", "o", "k", "m", "a", "r", "k", "_">>
unknown_id == <<"u", "n", "k", "n", "o", "w", "n", "_", "i", "d">>

\* String.prototype.startsWith
startsWith(s, p) ==
    Len(s) >= Len(p) /\ SubSeq(s, 1, Len(p)) = p

\* the index of the last "_" of s, 0 when there is none
RECURSIVE lastUnderscore(_, _)
lastUnderscore(s, i) ==
    IF i = 0 THEN 0
    ELSE IF s[i] = "_" THEN i
    ELSE lastUnderscore(s, i - 1)

\* the id with its prefix left on
notStripped(s) ==
    s

\* parts[parts.length - 1] of s.split("_")
lastPart(s) ==
    SubSeq(s, lastUnderscore(s, Len(s)) + 1, Len(s))

\* the characters ordered by code unit, as far as ids use them
CharOrder ==
    <<"0", "1", "2", "3", "4", "5", "6", "7", "8", "9", "_",
      "a", "b", "c", "d", "e", "f", "g", "h", "i", "j", "k", "l", "m",
      "n", "o", "p", "q", "r", "s", "t", "u", "v", "w", "x", "y", "z">>

charCode(c) ==
    CHOOSE i \in 1..Len(CharOrder) : CharOrder[i] = c

\* a < b as IndexedDB orders string keys
RECURSIVE strLess(_, _)
strLess(a, b) ==
    IF a = <<>> THEN b # <<>>
    ELSE IF b = <<>> THEN FALSE
    ELSE IF Head(a) = Head(b) THEN strLess(Tail(a), Tail(b))
    ELSE charCode(Head(a)) < charCode(Head(b))

-----------------------------------------------------------------------------
(* JavaScript values *)

has(o, k) == k \in DOMAIN o

\* truthiness of a tagged scalar
truthy(v) ==
    IF has(v, "num") THEN v.num # 0
    ELSE IF has(v, "iso") THEN TRUE
    ELSE IF has(v, "str") THEN v.str # ""
    ELSE FALSE

\* o[k] is a non-empty character sequence / a non-empty string
truthySeq(o, k) == has(o, k) /\ o[k] # <<>>
truthyStr(o, k) == has(o, k) /\ o[k] # "" /\ o[k] # Undefined
truthyVal(o, k) == has(o, k) /\ truthy(o[k])
truthyFlag(o, k) == has(o, k) /\ o[k] = TRUE

\* a parsed value that is an object, not a number, a string or null
isObject(v) == DOMAIN v \cap {"num", "iso", "str", "null"} = {}

InvalidDate == [valid |-> FALSE, ms |-> 0]
DateOf(ms) == [valid |-> TRUE, ms |-> ms]

\* new Date(v)
newDate(v) ==
    IF has(v, "num") THEN DateOf(v.num)
    ELSE IF has(v, "iso") THEN DateOf(v.iso)
    ELSE IF has(v, "null") THEN DateOf(0)
    ELSE InvalidDate

\* Date.prototype.toJSON: the ISO string, null for an invalid date
dateToJSON(d) ==
    IF d.valid THEN [iso |-> d.ms] ELSE [null |-> TRUE]

-----------------------------------------------------------------------------
(* importer.ts: findBestVideo *)

isMp4(v) == has(v, "content_type") /\ v.content_type = "video/mp4"

\* v.bitrate || 0
bitrateOf(v) == IF has(v, "bitrate") THEN v.bitrate ELSE 0

\* Array.prototype.sort with (a, b) => (b.bitrate || 0) - (a.bitrate || 0):
\* descending and stable, so x goes behind every element that is not smaller
RECURSIVE insertByBitrate(_, _)
insertByBitrate(sorted, x) ==
    IF sorted = <<>> THEN <<x>>
    ELSE IF bitrateOf(Head(sorted)) >= bitrateOf(x)
         THEN <<Head(sorted)>> \o insertByBitrate(Tail(sorted), x)
         ELSE <<x>> \o sorted

\* a sort that leaves the list as it is
keptOrder(vs) ==
    vs

RECURSIVE sortByBitrate(_)
sortByBitrate(vs) ==
    IF vs = <<>> THEN <<>>
    ELSE insertByBitrate(sortByBitrate(SubSeq(vs, 1, Len(vs) - 1)), vs[Len(vs)])

findBestVideo(mediaItem) ==
    LET info == IF has(mediaItem, "video_info") THEN mediaItem.video_info
                ELSE IF has(mediaItem, "type") /\ mediaItem.type = "video"
                     THEN mediaItem
                     ELSE [null |-> TRUE]
    IN  IF has(info, "variants")
        THEN LET sorted == sortByBitrate(SelectSeq(info.variants, isMp4))
             IN  IF sorted # <<>> /\ has(sorted[1], "url")
                 THEN sorted[1].url ELSE Undefined
        ELSE Undefined

-----------------------------------------------------------------------------
(* importer.ts: the per-entry mapping of processTwillotJson *)

\* entry.id || entry.tweet_id || entry.tweetId || "unknown_id", then the
\* bookmark_ prefix stripped
rawId(entry) ==
    LET first == IF truthySeq(entry, "id") THEN entry.id
                 ELSE IF truthySeq(entry, "tweet_id") THEN entry.tweet_id
                 ELSE IF truthySeq(entry, "tweetId") THEN entry.tweetId
                 ELSE unknown_id
    IN  IF startsWith(first, bookmark_) THEN lastPart(first) ELSE first

fullTextOf(entry) ==
    IF truthyStr(entry, "fullText") THEN entry.fullText
    ELSE IF truthyStr(entry, "full_text") THEN entry.full_text
    ELSE IF truthyStr(entry, "text") THEN entry.text
    ELSE ""

\* ts < 10000000000 ? ts * 1000 : ts.  Numbers of time (epoch values, the
\* clock) count units of 3 200 000, so that they stay within TLC's integers
\* and a day is a whole number of units: the limit 10^10 is 3125 units
SecondsLimit == 3125

\* a normalizer that ignores the timestamp of the entry
createdAtAlwaysNow(entry, t) ==
    DateOf(t)

createdAtOf(entry, t) ==
    IF truthyVal(entry, "createdAt") THEN newDate(entry.createdAt)
    ELSE IF truthyVal(entry, "created_at")
         THEN IF has(entry.created_at, "num")
              THEN LET ts == entry.created_at.num
                   IN  DateOf(IF ts < SecondsLimit THEN ts * 1000 ELSE ts)
              ELSE newDate(entry.created_at)
         ELSE DateOf(t)

authorHandleOf(entry) ==
    IF truthyStr(entry, "authorHandle") THEN entry.authorHandle
    ELSE IF truthyStr(entry, "screen_name") THEN entry.screen_name
    ELSE "Unknown"

authorNameOf(entry) ==
    IF truthyStr(entry, "authorName") THEN entry.authorName
    ELSE IF truthyStr(entry, "name") THEN entry.name
    ELSE IF truthyStr(entry, "username") THEN entry.username
    ELSE "Twitter User"

\* a || b || c keeps the last operand when none is truthy
avatarUrlOf(entry) ==
    IF truthyStr(entry, "avatarUrl") THEN entry.avatarUrl
    ELSE IF truthyStr(entry, "profile_image_url") THEN entry.profile_image_url
    ELSE IF has(entry, "avatar_url") THEN entry.avatar_url
    ELSE Undefined

typeOf(entry) ==
    IF has(entry, "type") /\ entry.type \in {"bookmark", "like"} THEN entry.type
    ELSE IF truthyFlag(entry, "bookmarked") THEN "bookmark"
    ELSE IF truthyFlag(entry, "favorited") THEN "like"
    ELSE "bookmark"

field(o, k) == IF has(o, k) THEN o[k] ELSE Undefined

isVideoItem(m) == has(m, "type") /\ m.type \in {"video", "animated_gif"}
isVideoLike(m) == isVideoItem(m) \/ has(m, "video_info")

\* Array.prototype.find: the first element satisfying Test, as <<m>>, or <<>>
firstVideoItem(ms) ==
    LET hit == SelectSeq(ms, isVideoItem) IN IF hit = <<>> THEN <<>> ELSE <<hit[1]>>
firstVideoLike(ms) ==
    LET hit == SelectSeq(ms, isVideoLike) IN IF hit = <<>> THEN <<>> ELSE <<hit[1]>>

\* m.type is video or animated_gif ? m.thumbnail : m.original || m.url
tweDisplayUrl(m) ==
    IF isVideoItem(m) THEN field(m, "thumbnail")
    ELSE IF truthyStr(m, "original") THEN m.original
    ELSE field(m, "url")

\* entry.extended_entities?.media || entry.media_items || []
rawMediaOf(entry) ==
    IF has(entry, "extended_entities") /\ has(entry.extended_entities, "media")
    THEN entry.extended_entities.media
    ELSE IF has(entry, "media_items") THEN entry.media_items
    ELSE <<>>

\* the three media branches: [mediaUrls, mediaUrl, videoUrl]
mediaOf(entry) ==
    IF has(entry, "mediaUrls")
    THEN [mediaUrls |-> entry.mediaUrls,
          mediaUrl |-> field(entry, "mediaUrl"),
          videoUrl |-> field(entry, "videoUrl")]
    ELSE IF has(entry, "media") /\ entry.media # <<>>
    THEN LET urls == [i \in 1..Len(entry.media) |-> tweDisplayUrl(entry.media[i])]
             videoEntry == firstVideoItem(entry.media)
         IN  [mediaUrls |-> urls,
              mediaUrl |-> urls[1],
              videoUrl |-> IF videoEntry # <<>>
                           THEN field(videoEntry[1], "original") ELSE Undefined]
    ELSE IF has(entry, "extended_entities") \/ has(entry, "media_items")
    THEN LET rawMedia == rawMediaOf(entry)
             urls == [i \in 1..Len(rawMedia) |-> field(rawMedia[i], "media_url_https")]
             videoEntry == firstVideoLike(rawMedia)
         IN  IF rawMedia # <<>>
             THEN [mediaUrls |-> urls,
                   mediaUrl |-> urls[1],
                   videoUrl |-> IF videoEntry # <<>>
                                THEN findBestVideo(videoEntry[1]) ELSE Undefined]
             ELSE [mediaUrls |-> <<>>, mediaUrl |-> Undefined, videoUrl |-> Undefined]
    ELSE [mediaUrls |-> <<>>, mediaUrl |-> Undefined, videoUrl |-> Undefined]

\* one TweetItem from one entry, at import time t
tweetItem(entry, t) ==
    LET media == mediaOf(entry)
    IN  [id |-> rawId(entry),
         fullText |-> fullTextOf(entry),
         createdAt |-> createdAtOf(entry, t),
         authorHandle |-> authorHandleOf(entry),
         authorName |-> authorNameOf(entry),
         avatarUrl |-> avatarUrlOf(entry),
         mediaUrl |-> media.mediaUrl,
         mediaUrls |-> media.mediaUrls,
         videoUrl |-> media.videoUrl,
         type |-> typeOf(entry),
         isDeleted |-> 0,
         jsonBlob |-> entry]

\* dataArray.map(...)
itemsToSave(dataArray, t) ==
    [i \in 1..Len(dataArray) |-> tweetItem(dataArray[i], t)]

-----------------------------------------------------------------------------
(* importer.ts: processTwillotJson, from the File to the rows *)

\* A File is [name, content].  The content is one of
\*   [kind |-> "array", items |-> <<entry, ...>>]    a JSON array
\*   [kind |-> "object", item |-> entry]             one JSON object
\*   [kind |-> "lines", lines |-> <<line, ...>>]     anything else, by line:
\*        [json |-> entry], [blank |-> TRUE] or [garbage |-> TRUE]
\*   [kind |-> "csv", rows |-> <<...>>]              the CSV exportData writes

lower(c) ==
    CASE c = "J" -> "j" [] c = "S" -> "s" [] c = "O" -> "o"
      [] c = "N" -> "n" [] c = "L" -> "l" [] OTHER -> c

endsWith(s, p) ==
    Len(s) >= Len(p) /\ SubSeq(s, Len(s) - Len(p) + 1, Len(s)) = p

\* a match that compares the letters as they are
nameMatchesExact(name) ==
    \/ endsWith(name, <<".", "j", "s", "o", "n">>)
    \/ endsWith(name, <<".", "j", "s", "o", "n", "l">>)

\* file.name.match(/\.jsonl?$/i)
nameMatches(name) ==
    LET n == [i \in 1..Len(name) |-> lower(name[i])]
    IN  \/ endsWith(n, <<".", "j", "s", "o", "n">>)
        \/ endsWith(n, <<".", "j", "s", "o", "n", "l">>)

isJsonLine(l) == has(l, "json")
isBlankLine(l) == has(l, "blank")
notBlankLine(l) == ~has(l, "blank")
\* a line that parses, to something other than null (item !== null)
isKeptLine(l) == has(l, "json") /\ ~has(l.json, "null")

\* JSON.parse(text) succeeds: the text is one JSON document, which a text of
\* lines is when one line holds a value and the others are blank
parsesWhole(content) ==
    \/ content.kind \in {"array", "object"}
    \/ /\ content.kind = "lines"
       /\ Len(SelectSeq(content.lines, isJsonLine)) = 1
       /\ Len(SelectSeq(content.lines, notBlankLine)) = 1

\* the rows of the CSV text, each a line that is no JSON
textLines(content) ==
    IF content.kind = "lines" THEN content.lines
    ELSE [i \in 1..Len(content.rows) |-> [garbage |-> TRUE]]

\* dataArray: the whole document, or else the lines that parse
dataArrayOf(content) ==
    IF parsesWhole(content)
    THEN IF content.kind = "array" THEN content.items
         ELSE IF content.kind = "object" THEN <<content.item>>
         ELSE <<SelectSeq(content.lines, isJsonLine)[1].json>>
    ELSE LET parsed == SelectSeq(textLines(content), isKeptLine)
         IN  [i \in 1..Len(parsed) |-> parsed[i].json]

-----------------------------------------------------------------------------
(* db.ts: the items table, primary key id *)

\* a put that adds the row beside the row of the same key
putBeside(rows, item) ==
    rows \cup {item}

\* a put that keeps the isDeleted of the row it replaces
putKeepsFlag(rows, item) ==
    {r \in rows : r.id # item.id}
        \cup {IF \E r \in rows : r.id = item.id /\ r.isDeleted = 1
              THEN [item EXCEPT !.isDeleted = 1] ELSE item}

\* Table.put: the row replaces the row of the same primary key
put(rows, item) ==
    {r \in rows : r.id # item.id} \cup {item}

\* Table.bulkPut: put, in array order
RECURSIVE bulkPut(_, _)
bulkPut(rows, items) ==
    IF items = <<>> THEN rows
    ELSE bulkPut(put(rows, Head(items)), Tail(items))

\* an update that removes the row
updateRemoves(rows, key) ==
    {r \in rows : r.id # key}

\* Table.update(key, changes) with changes = {isDeleted: 1}
update(rows, key) ==
    {IF r.id = key THEN [r EXCEPT !.isDeleted = 1] ELSE r : r \in rows}

\* Collection.toArray: the rows in primary-key order
RECURSIVE toArray(_)
toArray(rows) ==
    IF rows = {} THEN <<>>
    ELSE LET least == CHOOSE r \in rows :
                        \A q \in rows : q.id = r.id \/ strLess(r.id, q.id)
         IN  <<least>> \o toArray(rows \ {least})

\* entry.id of an entry that is null throws a TypeError (the text is V8's)
TypeErrorOfNull == "Cannot read properties of null (reading 'id')"

\* the outcome of processTwillotJson(file) on the table at time t:
\* the rows afterwards, and the count returned or the error thrown
processTwillotJson(rows, file, t) ==
    IF ~nameMatches(file.name)
    THEN [rows |-> rows, ok |-> FALSE, count |-> 0,
          message |-> "Please upload a .json or .jsonl file."]
    ELSE LET dataArray == dataArrayOf(file.content)
             items == itemsToSave(dataArray, t)
         IN  IF dataArray = <<>>
             THEN [rows |-> rows, ok |-> FALSE, count |-> 0,
                   message |-> "No valid data found in file."]
             ELSE IF \E i \in 1..Len(dataArray) : has(dataArray[i], "null")
             THEN [rows |-> rows, ok |-> FALSE, count |-> 0,
                   message |-> TypeErrorOfNull]
             ELSE [rows |-> bulkPut(rows, items), ok |-> TRUE,
                   count |-> Len(items), message |-> ""]

-----------------------------------------------------------------------------
(* exporter.ts: exportData *)

Null == "<null>"

\* JSON.stringify of an array of strings: undefined becomes null
urlsToJSON(urls) ==
    [i \in 1..Len(urls) |-> IF urls[i] = Undefined THEN Null ELSE urls[i]]

\* JSON.parse(JSON.stringify(item)): keys holding undefined are left out, the
\* Date becomes its ISO string
itemToJSON(item) ==
    LET keys == {"id", "fullText", "createdAt", "authorHandle", "authorName",
                 "mediaUrls", "type", "isDeleted", "jsonBlob"}
                \cup {k \in {"avatarUrl", "mediaUrl", "videoUrl"} : item[k] # Undefined}
    IN  [k \in keys |->
            CASE k = "createdAt" -> dateToJSON(item.createdAt)
              [] k = "mediaUrls" -> urlsToJSON(item.mediaUrls)
              [] OTHER -> item[k]]

\* a read of all the rows, deleted or not
activeItemsAll(rows) ==
    rows

\* db.items.filter((i) => i.isDeleted === 0)
activeItems(rows) ==
    {r \in rows : r.isDeleted = 0}

\* one CSV row: the columns in header order
csvRow(item) ==
    <<item.id, dateToJSON(item.createdAt), item.authorHandle, item.authorName,
      item.fullText, Len(item.mediaUrls), item.mediaUrls,
      IF item.videoUrl = Undefined THEN "" ELSE item.videoUrl, item.id>>

exportName(ext) == <<"e", "x", "p", "o", "r", "t", ".">> \o ext

NoFile == [name |-> <<>>, content |-> [kind |-> "none"]]

\* the file exportData(formatType) downloads from the table, NoFile when
\* there is nothing to export
exportData(rows, formatType) ==
    LET items == toArray(activeItems(rows))
    IN  IF items = <<>> THEN NoFile
        ELSE CASE formatType = "json" ->
                    [name |-> exportName(<<"j", "s", "o", "n">>),
                     content |-> [kind |-> "array",
                                  items |-> [i \in 1..Len(items) |-> itemToJSON(items[i])]]]
               [] formatType = "jsonl" ->
                    [name |-> exportName(<<"j", "s", "o", "n", "l">>),
                     content |-> [kind |-> "lines",
                                  lines |-> [i \in 1..Len(items) |->
                                               [json |-> itemToJSON(items[i])]]]]
               [] OTHER ->
                    [name |-> exportName(<<"c", "s", "v">>),
                     content |-> [kind |-> "csv",
                                  rows |-> [i \in 1..Len(items) |-> csvRow(items[i])]]]

-----------------------------------------------------------------------------
(* The other read paths *)

\* ActivityGraph: db.items.where("type").equals(type), then isDeleted === 0
activityItems(rows, type) ==
    {r \in {q \in rows : q.type = type} : r.isDeleted = 0}

\* App: allItems, the rows of the feed (their order by createdAt is not
\* modelled: a set)
allItems(rows, filterType) ==
    {r \in {q \in rows : q.isDeleted = 0} : r.type = filterType}

\* App: filteredItems with an author selected
filteredItems(rows, filterType, selectedAuthor) ==
    {r \in allItems(rows, filterType) : r.authorHandle = selectedAuthor}

\* the rows handed to downloadMediaZip: the feed of the selected author
archiveInput(rows, filterType, selectedAuthor) ==
    filteredItems(rows, filterType, selectedAuthor)

\* downloadMediaZip: the items that have any media
hasMedia(i) ==
    i.videoUrl \notin {Undefined, ""} \/ i.mediaUrl \notin {Undefined, ""}
        \/ i.mediaUrls # <<>>

mediaItemsOf(items) ==
    SelectSeq(items, hasMedia)

-----------------------------------------------------------------------------
(* The input files of the model *)

\* a Twitter Web Exporter bookmark with one photo
EntryTWE ==
    [id |-> <<"7">>, created_at |-> [iso |-> 1000], full_text |-> "hello",
     screen_name |-> "alice", name |-> "Alice", bookmarked |-> TRUE,
     media |-> <<[type |-> "photo", url |-> "u1", thumbnail |-> "t1",
                  original |-> "o1"]>>]

\* the same tweet as Twillot exports it: prefixed id, epoch seconds, a video
EntryTwillot ==
    [tweet_id |-> bookmark_ \o <<"7">>, created_at |-> [num |-> 2],
     text |-> "hello", username |-> "Alice", screen_name |-> "alice",
     media_items |->
        <<[media_url_https |-> "m1", type |-> "video",
           video_info |-> [variants |->
              <<[content_type |-> "video/mp4", bitrate |-> 1, url |-> "v1"],
                [content_type |-> "application/x-mpegURL", url |-> "v0"],
                [content_type |-> "video/mp4", bitrate |-> 2, url |-> "v2"]>>]]>>]

\* two different entries with neither an id nor a timestamp
EntryBare == [full_text |-> "first"]
EntryBareLike == [text |-> "second", favorited |-> TRUE]

Entries == {EntryTWE, EntryTwillot, EntryBare}

RECURSIVE SeqsUpTo(_, _)
SeqsUpTo(S, n) ==
    IF n = 0 THEN {<<>>}
    ELSE LET shorter == SeqsUpTo(S, n - 1)
         IN  shorter \cup {Append(q, x) : q \in shorter, x \in S}

aJson == <<"a", ".", "j", "s", "o", "n">>
aJSONL == <<"a", ".", "J", "S", "O", "N", "L">>
aCsv == <<"a", ".", "c", "s", "v">>

InputFiles ==
    {[name |-> aJson, content |-> [kind |-> "array", items |-> q]] :
        q \in SeqsUpTo(Entries, MaxFileLen)}
    \cup {[name |-> aJson, content |-> [kind |-> "object", item |-> EntryTWE]],
          [name |-> aJSONL,
           content |-> [kind |-> "lines",
                        lines |-> <<[json |-> EntryBareLike], [blank |-> TRUE],
                                    [garbage |-> TRUE], [json |-> EntryBare]>>]],
          [name |-> aJson,
           content |-> [kind |-> "lines", lines |-> <<[garbage |-> TRUE]>>]],
          [name |-> aCsv, content |-> [kind |-> "array", items |-> <<EntryTWE>>]],
          [name |-> aJson, content |-> [kind |-> "array", items |-> <<[num |-> 1]>>]],
          [name |-> aJson, content |-> [kind |-> "array", items |-> <<[null |-> TRUE]>>]],
          [name |-> aJSONL,
           content |-> [kind |-> "lines",
                        lines |-> <<[json |-> [null |-> TRUE]],
                                    [json |-> [str |-> "x"]]>>]]}

\* how deep jsonBlob nests exported rows inside an entry
RECURSIVE nesting(_)
nesting(entry) ==
    IF has(entry, "jsonBlob") THEN 1 + nesting(entry.jsonBlob) ELSE 0

-----------------------------------------------------------------------------
(* exporter.ts: downloadMediaZip *)

batchSize == 3

Min(a, b) == IF a < b THEN a ELSE b

hasVideo(item) == item.videoUrl \notin {Undefined, ""}

\* mediaUrls if it has any, else [mediaUrl] if there is one, else []
urlsOf(item) ==
    IF item.mediaUrls # <<>> THEN item.mediaUrls
    ELSE IF item.mediaUrl \notin {Undefined, ""} THEN <<item.mediaUrl>>
    ELSE <<>>

\* a count of the video and of the images beside it
countWithImages(item) ==
    (IF hasVideo(item) THEN 1 ELSE 0) + Len(urlsOf(item))

\* the units of one item: its video alone, or each of its images
countOf(item) ==
    IF hasVideo(item) THEN 1 ELSE Len(urlsOf(item))

RECURSIVE totalFilesOf(_)
totalFilesOf(mediaItems) ==
    IF mediaItems = <<>> THEN 0
    ELSE countOf(Head(mediaItems)) + totalFilesOf(Tail(mediaItems))

\* a unit is <<k, index>>: the video (index 0) or the image urls[index] of
\* mediaItems[k]
unitsOf(mediaItems, k) ==
    IF hasVideo(mediaItems[k]) THEN {<<k, 0>>}
    ELSE {<<k, index>> : index \in 0..(Len(urlsOf(mediaItems[k])) - 1)}

unitUrl(mediaItems, u) ==
    IF hasVideo(mediaItems[u[1]]) THEN mediaItems[u[1]].videoUrl
    ELSE urlsOf(mediaItems[u[1]])[u[2] + 1]

\* a batch taking one item more than batchSize
batchOfFour(mediaItems, i) ==
    (i + 1)..Min(i + batchSize + 1, Len(mediaItems))

\* mediaItems.slice(i, i + batchSize), as the positions of its items
batch(mediaItems, i) ==
    (i + 1)..Min(i + batchSize, Len(mediaItems))

batchUnits(mediaItems, i) ==
    UNION {unitsOf(mediaItems, k) : k \in batch(mediaItems, i)}

\* batch.map(async ...): every fetch of the batch is issued before the first
\* await gives control back
issued(mediaItems, i) ==
    [u \in batchUnits(mediaItems, i) |-> "fetching"]

\* a progress callback that records nothing
onProgressSilent(calls, current, total) ==
    calls

\* onProgress(current, total), recorded
onProgress(calls, current, total) ==
    Append(calls, <<current, total>>)

\* the content type the server gives the blob of a URL
png == <<"i", "m", "a", "g", "e", "/", "p", "n", "g">>
jpeg == <<"i", "m", "a", "g", "e", "/", "j", "p", "e", "g">>
blobType(url) ==
    CASE url = "p1" -> <<>>
      [] url = "p2" -> png
      [] OTHER -> jpeg

\* the index of the first c in s, 0 when there is none
indexOf(s, c) ==
    IF \E n \in 1..Len(s) : s[n] = c
    THEN CHOOSE n \in 1..Len(s) : s[n] = c /\ \A m \in 1..(n - 1) : s[m] # c
    ELSE 0

\* type.split("/")[1], <<>> when it is undefined or empty
secondPart(type) ==
    LET a == indexOf(type, "/")
        rest == SubSeq(type, a + 1, Len(type))
        b == indexOf(rest, "/")
    IN  IF a = 0 THEN <<>>
        ELSE IF b = 0 THEN rest
        ELSE SubSeq(rest, 1, b - 1)

extOf(type) ==
    IF secondPart(type) # <<>> THEN secondPart(type) ELSE <<"j", "p", "g">>

\* a day in units of time: 86 400 000 ms
MsPerDay == 27

\* format(date, "yyyy-MM-dd"): the day of the date (in UTC), as its number
dateStr(date) == date.ms \div MsPerDay

digit(n) == CharOrder[n + 1]

\* `${authorHandle}_${dateStr}_${id}${suffix}.${ext}`: the handle and the
\* date are kept as pieces, the rest is the character sequence
filenameOf(mediaItems, u) ==
    LET item == mediaItems[u[1]]
        urls == urlsOf(item)
        suffix == IF Len(urls) > 1 THEN <<"_", digit(u[2] + 1)>> ELSE <<>>
        ext == IF hasVideo(item) THEN <<"m", "p", "4">>
               ELSE extOf(blobType(unitUrl(mediaItems, u)))
    IN  [handle |-> item.authorHandle,
         dateStr |-> dateStr(item.createdAt),
         tail |-> item.id \o (IF hasVideo(item) THEN <<>> ELSE suffix)
                     \o <<".">> \o ext]

\* folder.file(name, blob): a file of the same name is replaced
folderFile(files, name, blob) ==
    {f \in files : f.name # name} \cup {[name |-> name, blob |-> blob]}

NoResult == [kind |-> "none"]
NoZip == [name |-> "", files |-> {}]

\* no call of downloadMediaZip has been made
InitZip ==
    /\ pc = "idle"
    /\ loopI = 0
    /\ fetches = << >>
    /\ totalFiles = 0
    /\ processedCount = 0
    /\ successCount = 0
    /\ progress = <<>>
    /\ folder = {}
    /\ result = NoResult
    /\ alerted = ""
    /\ saved = NoZip

mediaItems == mediaItemsOf(zipItems)
authorHandle == "alice"

\* a call that throws when no item has media
NoMediaFoundThrows ==
    /\ pc = "idle"
    /\ totalFilesOf(mediaItems) = 0
    /\ result' = [kind |-> "threw", message |-> "No media found for this user."]
    /\ pc' = "done"
    /\ UNCHANGED <<zipItems, loopI, fetches, totalFiles, processedCount,
                   successCount, progress, folder, alerted, saved>>
    /\ UNCHANGED <<storeVars, normVars, graphVars>>

\* the call, when no item has media: alert and return 0
NoMediaFound ==
    /\ pc = "idle"
    /\ totalFilesOf(mediaItems) = 0
    /\ alerted' = "No media found for this user."
    /\ result' = [kind |-> "returned", value |-> 0]
    /\ pc' = "done"
    /\ UNCHANGED <<zipItems, loopI, fetches, totalFiles, processedCount,
                   successCount, progress, folder, saved>>
    /\ UNCHANGED <<storeVars, normVars, graphVars>>

\* the call, up to the first await: the total, the first onProgress, the
\* fetches of the first batch
StartDownload ==
    /\ pc = "idle"
    /\ totalFilesOf(mediaItems) # 0
    /\ totalFiles' = totalFilesOf(mediaItems)
    /\ processedCount' = 0
    /\ successCount' = 0
    /\ progress' = onProgress(progress, 0, totalFilesOf(mediaItems))
    /\ loopI' = 0
    /\ fetches' = issued(mediaItems, 0)
    /\ pc' = "loop"
    /\ UNCHANGED <<zipItems, folder, result, alerted, saved>>
    /\ UNCHANGED <<storeVars, normVars, graphVars>>

\* the status of a unit that has settled: its file is in the folder (ok), its
\* download failed (failed), or its blob arrived and no file was added (unnamed)
Settled == {"ok", "failed", "unnamed"}

\* catch, finally: the unit has failed
unitFails(u, how) ==
    /\ fetches' = [fetches EXCEPT ![u] = how]
    /\ processedCount' = processedCount + 1
    /\ progress' = onProgress(progress, processedCount + 1, totalFiles)
    /\ UNCHANGED <<zipItems, pc, loopI, totalFiles, successCount, folder,
                   result, alerted, saved>>
    /\ UNCHANGED <<storeVars, normVars, graphVars>>

\* fetch(url) rejects
FetchRejects ==
    \E u \in DOMAIN fetches :
        /\ fetches[u] = "fetching"
        /\ unitFails(u, "failed")

\* the response is not ok: throw new Error("Network error")
ResponseNotOk ==
    \E u \in DOMAIN fetches :
        /\ fetches[u] = "fetching"
        /\ unitFails(u, "failed")

\* the response is ok: await response.blob()
ResponseOk ==
    \E u \in DOMAIN fetches :
        /\ fetches[u] = "fetching"
        /\ fetches' = [fetches EXCEPT ![u] = "reading"]
        /\ UNCHANGED <<zipItems, pc, loopI, totalFiles, processedCount,
                       successCount, progress, folder, result, alerted, saved>>
        /\ UNCHANGED <<storeVars, normVars, graphVars>>

\* response.blob() rejects
BlobRejects ==
    \E u \in DOMAIN fetches :
        /\ fetches[u] = "reading"
        /\ unitFails(u, "failed")

\* the blob has arrived, but format() throws a RangeError on an invalid date
FormatThrows ==
    \E u \in DOMAIN fetches :
        /\ fetches[u] = "reading"
        /\ ~mediaItems[u[1]].createdAt.valid
        /\ unitFails(u, "unnamed")

\* the blob has arrived: the file is added to the folder; finally
FileAdded ==
    \E u \in DOMAIN fetches :
        /\ fetches[u] = "reading"
        /\ mediaItems[u[1]].createdAt.valid
        /\ folder' = folderFile(folder, filenameOf(mediaItems, u), unitUrl(mediaItems, u))
        /\ successCount' = successCount + 1
        /\ fetches' = [fetches EXCEPT ![u] = "ok"]
        /\ processedCount' = processedCount + 1
        /\ progress' = onProgress(progress, processedCount + 1, totalFiles)
        /\ UNCHANGED <<zipItems, pc, loopI, totalFiles, result, alerted, saved>>
        /\ UNCHANGED <<storeVars, normVars, graphVars>>

\* an await that is over only when every unit of the batch has succeeded
batchSucceeded ==
    /\ pc = "loop"
    /\ \A u \in batchUnits(mediaItems, loopI) : fetches[u] = "ok"

\* an await that is over when the first unit of the batch has settled
batchRaced ==
    /\ pc = "loop"
    /\ \E u \in batchUnits(mediaItems, loopI) : fetches[u] \in Settled

\* await Promise.all(...) of the batch is over
batchSettled ==
    /\ pc = "loop"
    /\ \A u \in batchUnits(mediaItems, loopI) : fetches[u] \in Settled

\* i += batchSize; i < mediaItems.length: the fetches of the next batch
NextBatch ==
    /\ batchSettled
    /\ loopI + batchSize < Len(mediaItems)
    /\ loopI' = loopI + batchSize
    /\ fetches' = issued(mediaItems, loopI + batchSize) @@ fetches
    /\ UNCHANGED <<zipItems, pc, totalFiles, processedCount, successCount,
                   progress, folder, result, alerted, saved>>
    /\ UNCHANGED <<storeVars, normVars, graphVars>>

\* after the loop, successCount === 0: throw
AllFailed ==
    /\ batchSettled
    /\ ~(loopI + batchSize < Len(mediaItems))
    /\ successCount = 0
    /\ result' = [kind |-> "threw", message |-> "Failed to download media."]
    /\ pc' = "done"
    /\ UNCHANGED <<zipItems, loopI, fetches, totalFiles, processedCount,
                   successCount, progress, folder, alerted, saved>>
    /\ UNCHANGED <<storeVars, normVars, graphVars>>

\* after the loop: await zip.generateAsync(...)
Generate ==
    /\ batchSettled
    /\ ~(loopI + batchSize < Len(mediaItems))
    /\ successCount # 0
    /\ pc' = "generating"
    /\ UNCHANGED <<zipItems, loopI, fetches, totalFiles, processedCount,
                   successCount, progress, folder, result, alerted, saved>>
    /\ UNCHANGED <<storeVars, normVars, graphVars>>

\* the zip is generated: it is downloaded, and successCount returned
Generated ==
    /\ pc = "generating"
    /\ saved' = [name |-> authorHandle \o "_media.zip", files |-> folder]
    /\ result' = [kind |-> "returned", value |-> successCount]
    /\ pc' = "done"
    /\ UNCHANGED <<zipItems, loopI, fetches, totalFiles, processedCount,
                   successCount, progress, folder, alerted>>
    /\ UNCHANGED <<storeVars, normVars, graphVars>>

(* The items of the model *)

\* longest list of items handed to downloadMediaZip
MaxItems == 4

\* the entries the items are imported from, with the id of their position
ZipVideo(k) == [EntryTwillot EXCEPT !.tweet_id = bookmark_ \o <<digit(k)>>]
ZipPhoto(k) == [EntryTWE EXCEPT !.id = <<digit(k)>>]
ZipPhotos(k) ==
    [id |-> <<digit(k)>>, created_at |-> [iso |-> 1000], screen_name |-> "alice",
     media |-> <<[type |-> "photo", original |-> "p1"],
                 [type |-> "photo", original |-> "p2"]>>]
ZipUndated(k) ==
    [id |-> <<digit(k)>>, created_at |-> [str |-> "soon"], authorHandle |-> "alice",
     mediaUrls |-> <<>>, mediaUrl |-> "s1"]
ZipText(k) == [id |-> <<digit(k)>>, full_text |-> "first"]

Shapes == {"video", "photo", "photos", "undated"}

zipEntry(shape, k) ==
    CASE shape = "video" -> ZipVideo(k)
      [] shape = "photo" -> ZipPhoto(k)
      [] shape = "photos" -> ZipPhotos(k)
      [] shape = "undated" -> ZipUndated(k)
      [] OTHER -> ZipText(k)

\* the lists of items with media, and the same after an item without media
ShapeLists ==
    SeqsUpTo(Shapes, MaxItems)
        \cup {<<"text">> \o shapes : shapes \in SeqsUpTo(Shapes, MaxItems - 1)}

ZipInputs ==
    {[k \in 1..Len(shapes) |-> tweetItem(zipEntry(shapes[k], k), 0)] :
        shapes \in ShapeLists}

-----------------------------------------------------------------------------
(* importer.ts: the map callback of processTwillotJson, on one entry *)

NoEntry == [none |-> TRUE]
NoItem == [none |-> TRUE]

\* no entry is under the callback
InitNorm ==
    /\ rawEntry = NoEntry
    /\ normalized = NoItem

\* dataArray.map((entry) => ...): the TweetItem of the entry
Normalize ==
    /\ rawEntry # NoEntry
    /\ normalized' = tweetItem(rawEntry, now)
    /\ UNCHANGED <<rawEntry, storeVars, zipVars, graphVars>>

-----------------------------------------------------------------------------
(* ActivityGraph.tsx: the statistics of a year *)

\* format(date, "yyyy-MM-dd") is the number of the day of the date, dateStr;
\* parseISO(dateStr) is the start of that day (the time zone is UTC)
parseISO(day) == DateOf(day * MsPerDay)

\* getYear(date): the year of the Gregorian calendar the day falls in
getYear(date) ==
    LET z == dateStr(date) + 719468
        era == z \div 146097
        doe == z - era * 146097
        yoe == (doe - doe \div 1460 + doe \div 36524 - doe \div 146096) \div 365
        doy == doe - (365 * yoe + yoe \div 4 - yoe \div 100)
        mp == (5 * doy + 2) \div 153
    IN  yoe + era * 400 + (IF mp < 10 THEN 0 ELSE 1)

\* differenceInDays of the starts of two days
differenceInDays(later, earlier) == dateStr(later) - dateStr(earlier)

\* isWeekend(date): Saturday or Sunday; day 0 was a Thursday
isWeekend(date) == (dateStr(date) + 4) % 7 \in {0, 6}

\* Math.round of num / den, for num >= 0 and den > 0
MathRound(num, den) == (2 * num + den) \div (2 * den)

\* Array.prototype.sort, ascending
RECURSIVE sorted(_)
sorted(S) ==
    IF S = {} THEN <<>>
    ELSE LET least == CHOOSE x \in S : \A y \in S : x <= y
         IN  <<least>> \o sorted(S \ {least})

\* sort((a, b) => b - a)
RECURSIVE sortedDescending(_)
sortedDescending(S) ==
    IF S = {} THEN <<>>
    ELSE LET most == CHOOSE x \in S : \A y \in S : x >= y
         IN  <<most>> \o sortedDescending(S \ {most})

\* counts[dateStr]: the number of items of each day
countsOf(items) ==
    [d \in {dateStr(items[k].createdAt) : k \in 1..Len(items)} |->
        Cardinality({k \in 1..Len(items) : dateStr(items[k].createdAt) = d})]

\* the years of the selector: those of the items, descending, with the
\* current year put in front when it is not among them
availableYearsOf(items, thisYear) ==
    LET years == sortedDescending({getYear(items[k].createdAt) : k \in 1..Len(items)})
    IN  IF \E n \in 1..Len(years) : years[n] = thisYear THEN years
        ELSE <<thisYear>> \o years

\* the loop of the longest streak, from activeDates[n] on
RECURSIVE streakLoop(_, _, _, _)
streakLoop(activeDates, n, currentStreak, maxStreak) ==
    IF n > Len(activeDates) THEN maxStreak
    ELSE LET current ==
                 IF n = 1 THEN 1
                 ELSE IF differenceInDays(parseISO(activeDates[n]),
                                          parseISO(activeDates[n - 1])) = 1
                      THEN currentStreak + 1
                      ELSE 1
         IN  streakLoop(activeDates, n + 1, current,
                        IF current > maxStreak THEN current ELSE maxStreak)

\* a streak that only counts the active days
maxStreakIsActiveDays(activeDates) ==
    Len(activeDates)

maxStreakOf(activeDates) ==
    streakLoop(activeDates, 1, 0, 0)

\* the loop of the longest gap, from activeDates[n] on
RECURSIVE gapLoop(_, _, _)
gapLoop(activeDates, n, maxGap) ==
    IF n > Len(activeDates) THEN maxGap
    ELSE LET diff == differenceInDays(parseISO(activeDates[n]),
                                      parseISO(activeDates[n - 1]))
         IN  gapLoop(activeDates, n + 1, IF diff > maxGap THEN diff ELSE maxGap)

\* a gap that is the largest difference itself
maxGapIsDifference(activeDates) ==
    IF Len(activeDates) > 1 THEN gapLoop(activeDates, 2, 0) ELSE 0

maxGapOf(activeDates) ==
    LET maxGap == IF Len(activeDates) > 1 THEN gapLoop(activeDates, 2, 0) ELSE 0
    IN  IF maxGap > 0 THEN maxGap - 1 ELSE 0

\* a percentage rounded down
weekendPercentFloor(weekendCount, totalCount) ==
    IF totalCount > 0 THEN (weekendCount * 100) \div totalCount ELSE 0

weekendPercentOf(weekendCount, totalCount) ==
    IF totalCount > 0 THEN MathRound(weekendCount * 100, totalCount) ELSE 0

\* the loop of the busiest day: the first day of the largest count
RECURSIVE busiestLoop(_, _, _, _)
busiestLoop(activeDates, counts, n, busy) ==
    IF n > Len(activeDates) THEN busy
    ELSE busiestLoop(activeDates, counts, n + 1,
                     IF counts[activeDates[n]] > busy.count
                     THEN [date |-> activeDates[n], count |-> counts[activeDates[n]]]
                     ELSE busy)

NoMemo == [kind |-> "none"]
MemoThrew == [kind |-> "threw", error |-> "RangeError"]

\* useMemo: the years and the statistics of the selected year (the calendar
\* cells, which only show the counts, are left out); format() throws a
\* RangeError on an invalid date
useMemo(items, year, thisYear) ==
    IF \E k \in 1..Len(items) : ~items[k].createdAt.valid THEN MemoThrew
    ELSE LET counts == countsOf(items)
             itemsInYear == {k \in 1..Len(items) : getYear(items[k].createdAt) = year}
             activeDates == sorted({d \in DOMAIN counts : getYear(parseISO(d)) = year})
             weekendCount == Cardinality({k \in itemsInYear : isWeekend(items[k].createdAt)})
         IN  [kind |-> "memo",
              availableYears |-> availableYearsOf(items, thisYear),
              stats |-> [total |-> Cardinality(itemsInYear),
                         activeDays |-> Len(activeDates),
                         maxStreak |-> maxStreakOf(activeDates),
                         maxGap |-> maxGapOf(activeDates),
                         weekendPercent |->
                            weekendPercentOf(weekendCount, Cardinality(itemsInYear)),
                         busiest |-> busiestLoop(activeDates, counts, 1,
                                                 [date |-> -1, count |-> 0])]]

\* new Date().getFullYear()
currentYear == getYear(DateOf(now))

\* no component is mounted
InitGraph ==
    /\ graphItems = <<>>
    /\ selectedYear = 0
    /\ graphMemo = NoMemo

\* the first render, with the items of the live query
Render ==
    /\ graphMemo = NoMemo
    /\ selectedYear' = currentYear
    /\ graphMemo' = useMemo(graphItems, currentYear, currentYear)
    /\ UNCHANGED <<graphItems, storeVars, zipVars, normVars>>

\* the year selector: setSelectedYear, and the render that follows
SelectYear ==
    /\ graphMemo.kind = "memo"
    /\ \E n \in 1..Len(graphMemo.availableYears) :
          /\ graphMemo.availableYears[n] # selectedYear
          /\ selectedYear' = graphMemo.availableYears[n]
          /\ graphMemo' = useMemo(graphItems, graphMemo.availableYears[n], currentYear)
    /\ UNCHANGED <<graphItems, storeVars, zipVars, normVars>>

-----------------------------------------------------------------------------
(* App.tsx: the handlers *)

NoDialog == [type |-> "none", count |-> 0, message |-> ""]

\* handleFileUpload: processTwillotJson, then the success or failure dialog
handleFileUpload(file) ==
    \E done \in {processTwillotJson(store, file, now)} :
        /\ store' = done.rows
        /\ dialog' = IF done.ok
                     THEN [type |-> "success", count |-> done.count, message |-> ""]
                     ELSE [type |-> "info", count |-> 0, message |-> done.message]
        /\ UNCHANGED <<now, download, zipVars, normVars, graphVars>>

ImportFile ==
    \E file \in InputFiles : handleFileUpload(file)

\* the files of one entry
SingleFiles ==
    {file \in InputFiles :
        /\ file.content.kind = "array"
        /\ Len(file.content.items) = 1
        /\ isObject(file.content.items[1])}

ImportSingle ==
    \E file \in SingleFiles : handleFileUpload(file)

\* the user picks the file exportData saved last
RestoreBackup ==
    /\ download # NoFile
    /\ \A e \in {dataArrayOf(download.content)[i] :
                    i \in 1..Len(dataArrayOf(download.content))} :
          nesting(e) <= MaxNest
    /\ handleFileUpload(download)

\* handleDelete(id), on a row the feed shows or showed
handleDelete(key) ==
    /\ store' = update(store, key)
    /\ UNCHANGED <<now, dialog, download, zipVars, normVars, graphVars>>

Delete ==
    \E r \in store : handleDelete(r.id)

\* handleReset, confirmed: db.delete() and the page reloads
handleReset ==
    /\ store # {}
    /\ store' = {}
    /\ dialog' = NoDialog
    /\ UNCHANGED <<now, download, zipVars, normVars, graphVars>>

\* the Export menu: exportData(formatType); nothing is saved when no row is active
Export ==
    \E formatType \in {"json", "jsonl", "csv"} :
        /\ exportData(store, formatType) # NoFile
        /\ download' = exportData(store, formatType)
        /\ UNCHANGED <<store, now, dialog, zipVars, normVars, graphVars>>

\* time passes
Tick ==
    /\ now < MaxClock
    /\ now' = now + 1
    /\ UNCHANGED <<store, dialog, download, zipVars, normVars, graphVars>>

InitStore ==
    /\ store = {}
    /\ now = 0
    /\ dialog = NoDialog
    /\ download = NoFile

Init ==
    /\ InitStore
    /\ InitZip
    /\ zipItems = <<>>
    /\ InitNorm
    /\ InitGraph

\* imports of any input file, soft deletes, resets
Next ==
    \/ ImportFile
    \/ Delete
    \/ handleReset
    \/ Tick

Spec == Init /\ [][Next]_vars

\* backup and restore: exports, and imports of the exported file
NextBackup ==
    \/ ImportSingle
    \/ RestoreBackup
    \/ Delete
    \/ handleReset
    \/ Export
    \/ Tick

SpecBackup == Init /\ [][NextBackup]_vars

InitArchive ==
    /\ InitStore
    /\ InitZip
    /\ zipItems \in ZipInputs
    /\ InitNorm
    /\ InitGraph

\* one call of downloadMediaZip on a list of items
NextZip ==
    \/ NoMediaFound
    \/ StartDownload
    \/ FetchRejects
    \/ ResponseNotOk
    \/ ResponseOk
    \/ BlobRejects
    \/ FormatThrows
    \/ FileAdded
    \/ NextBatch
    \/ AllFailed
    \/ Generate
    \/ Generated

SpecZip == InitArchive /\ [][NextZip]_vars

\* the same call when every fetch and every blob that is awaited settles, the
\* event loop runs every continuation that is ready, and generateAsync resolves
SpecZipFair == InitArchive /\ [][NextZip]_vars /\ WF_vars(NextZip)

(* The entries of the model: an id, a timestamp and media, in all mixes *)

\* segments joined by "_"
RECURSIVE joined(_)
joined(segs) ==
    IF Len(segs) = 1 THEN segs[1]
    ELSE segs[1] \o <<"_">> \o joined(Tail(segs))

\* the shapes of an id: with the prefix bookmark_ or without, and the
\* segments that follow
IdShapes ==
    [prefixed : BOOLEAN,
     segs : {<<<<"7">>>>, <<<<"1">>, <<"2">>>>, <<<<"x", "y">>>>,
             <<<<"a">>, <<"9", "9">>>>, <<<<>>>>, <<<<"7">>, <<>>>>}]

idString(shape) ==
    (IF shape.prefixed THEN bookmark_ ELSE <<>>) \o joined(shape.segs)

IdKeys == {"id", "tweet_id", "tweetId"}

\* the entry has the id under one key, or an empty id before it, or no id
IdParts ==
    {[k \in {key} |-> idString(shape)] : key \in IdKeys, shape \in IdShapes}
        \cup {[id |-> <<>>, tweet_id |-> <<"9">>], [text |-> "second"]}

TsParts ==
    {[full_text |-> "first"],
     [created_at |-> [iso |-> 1000]],
     [created_at |-> [num |-> 2]],
     [created_at |-> [num |-> 4000]],
     [created_at |-> [num |-> 0]],
     [created_at |-> [str |-> "soon"]],
     [createdAt |-> [iso |-> 500], created_at |-> [num |-> 2]],
     [createdAt |-> [num |-> 5]],
     [createdAt |-> [str |-> "soon"]]}

MediaParts ==
    {[screen_name |-> "alice"],
     [mediaUrls |-> <<"m1", "m2">>, mediaUrl |-> "m1", videoUrl |-> "v1"],
     [mediaUrls |-> <<"m1">>, mediaUrl |-> "m2"],
     [mediaUrls |-> <<>>, mediaUrl |-> "s1"],
     [media |-> <<[type |-> "photo", original |-> "p1"],
                  [type |-> "photo", url |-> "p2"]>>],
     [media |-> <<[type |-> "photo", thumbnail |-> "t0"],
                  [type |-> "video", thumbnail |-> "t1", original |-> "v1"]>>],
     [media |-> <<>>, media_items |-> <<[media_url_https |-> "m1"]>>],
     [media_items |-> EntryTwillot.media_items],
     [extended_entities |-> [media |-> <<[media_url_https |-> "m1", type |-> "animated_gif"]>>],
      media_items |-> <<[media_url_https |-> "m2"]>>],
     [extended_entities |-> [other |-> TRUE],
      media_items |-> <<[media_url_https |-> "m2"], [other |-> TRUE]>>],
     [media_items |-> <<>>]}

\* the flags of an entry: bookmarked and favorited, each absent, true or false
FlagParts ==
    {[text |-> "second"]}
        \cup {[bookmarked |-> b] : b \in BOOLEAN}
        \cup {[favorited |-> f] : f \in BOOLEAN}
        \cup {[bookmarked |-> b, favorited |-> f] : b \in BOOLEAN, f \in BOOLEAN}

\* the entries of one tweet with and without a type, with each mix of flags
TypedEntries ==
    {[id |-> <<"7">>] @@ c : c \in FlagParts}
        \cup {[id |-> <<"7">>, type |-> x] @@ c :
                 x \in {"bookmark", "like", "tweet"}, c \in FlagParts}

NormEntries ==
    {i @@ t @@ m : i \in IdParts, t \in TsParts, m \in MediaParts}
        \cup TypedEntries

InitNormalize ==
    /\ InitStore
    /\ InitZip
    /\ zipItems = <<>>
    /\ rawEntry \in NormEntries
    /\ normalized = NoItem
    /\ InitGraph

\* the normalization of one entry, at any time
NextNormalize ==
    \/ Normalize
    \/ Tick

SpecNormalize == InitNormalize /\ [][NextNormalize]_vars

-----------------------------------------------------------------------------
(* The items of the graph: up to MaxRecords records of a few days *)

\* most records of the graph
MaxRecords == 4

\* day 19723 is Monday, 2024-01-01
Jan1 == 19723

\* 2023-12-31 (a Sunday), 2024-01-01 at midnight and at noon, 01-02, 01-03,
\* 01-06 (a Saturday), 01-10, and a date that is invalid
GraphDates ==
    <<DateOf((Jan1 - 1) * MsPerDay), DateOf(Jan1 * MsPerDay),
      DateOf(Jan1 * MsPerDay + 13), DateOf((Jan1 + 1) * MsPerDay),
      DateOf((Jan1 + 2) * MsPerDay + 26), DateOf((Jan1 + 5) * MsPerDay),
      DateOf((Jan1 + 9) * MsPerDay), InvalidDate>>

\* the lists of n records, as the positions of their dates in GraphDates; the
\* order of the records has no part in the statistics, so one order is taken
RECURSIVE ascending(_, _)
ascending(n, from) ==
    IF n = 0 THEN {<<>>}
    ELSE UNION {{<<d>> \o rest : rest \in ascending(n - 1, d)} :
                   d \in from..Len(GraphDates)}

GraphInputs ==
    {[k \in 1..Len(ds) |-> [createdAt |-> GraphDates[ds[k]]]] :
        ds \in UNION {ascending(n, 1) : n \in 0..MaxRecords}}

InitActivity ==
    /\ InitStore
    /\ InitZip
    /\ zipItems = <<>>
    /\ InitNorm
    /\ graphItems \in GraphInputs
    /\ selectedYear = 0
    /\ graphMemo = NoMemo

\* one ActivityGraph on a list of records
NextActivity ==
    \/ Render
    \/ SelectYear

SpecActivity == InitActivity /\ [][NextActivity]_vars

-----------------------------------------------------------------------------
(* The items of the model whose ids hold an underscore *)

\* longest list of such items
MaxNamed == 4

\* one photo of a tweet whose id is that of the item before, then _2
ZipSuffixed(k) ==
    [id |-> <<digit(k - 1), "_", "2">>, created_at |-> [iso |-> 1000],
     screen_name |-> "alice", media |-> <<[type |-> "photo", original |-> "p2"]>>]

namedEntry(shape, k) ==
    IF shape = "suffixed" THEN ZipSuffixed(k) ELSE zipEntry(shape, k)

\* lists of tweets with two photos and of tweets with such an id, and the
\* lists of one tweet without media or without a valid date
NamedLists ==
    SeqsUpTo({"photos", "suffixed"}, MaxNamed) \cup {<<"text">>, <<"undated">>}

NamedInputs ==
    {[k \in 1..Len(shapes) |-> tweetItem(namedEntry(shapes[k], k), 0)] :
        shapes \in NamedLists}

InitNamed ==
    /\ InitStore
    /\ InitZip
    /\ zipItems \in NamedInputs
    /\ InitNorm
    /\ InitGraph

\* one call of downloadMediaZip on such a list
SpecNamed == InitNamed /\ [][NextZip]_vars

-----------------------------------------------------------------------------
(* The entries of the model with a video: up to MaxVariants variants *)

\* most variants of a video
MaxVariants == 3

\* MP4 variants of bitrate 1, of bitrate 2 (two of them) and without bitrate,
\* and an HLS playlist of a higher bitrate
Variants ==
    {[content_type |-> "video/mp4", bitrate |-> 1, url |-> "v1"],
     [content_type |-> "video/mp4", bitrate |-> 2, url |-> "v2"],
     [content_type |-> "video/mp4", bitrate |-> 2, url |-> "v3"],
     [content_type |-> "video/mp4", url |-> "v4"],
     [content_type |-> "application/x-mpegURL", bitrate |-> 3, url |-> "v0"]}

\* a media item of Twillot with its variants under video_info, with or
\* without a type
VideoItems ==
    {[media_url_https |-> "m1", type |-> "video", video_info |-> [variants |-> vs]] :
        vs \in SeqsUpTo(Variants, MaxVariants)}
    \cup {[media_url_https |-> "m1", video_info |-> [variants |-> vs]] :
             vs \in SeqsUpTo(Variants, MaxVariants)}

VideoEntries ==
    {[tweet_id |-> <<"7">>, text |-> "hello", media_items |-> <<m>>] : m \in VideoItems}

InitVideo ==
    /\ InitStore
    /\ InitZip
    /\ zipItems = <<>>
    /\ rawEntry \in VideoEntries
    /\ normalized = NoItem
    /\ InitGraph

\* the normalization of one entry with a video
NextVideo ==
    \/ Normalize
    \/ Tick

SpecVideo == InitVideo /\ [][NextVideo]_vars

-----------------------------------------------------------------------------
(* The claims *)

\* the table after importing file at time t
imported(rows, file, t) == processTwillotJson(rows, file, t).rows
valid(file) == processTwillotJson({}, file, 0).ok

\* the entry has a timestamp that the import uses
hasTimestamp(entry) ==
    truthyVal(entry, "createdAt") \/ truthyVal(entry, "created_at")

\* the table is as an import of file at time t left it: importing file at t
\* again changes nothing (bulkPut at one time is idempotent), and a table
\* that such an import leaves unchanged is one it produces
importedAt(file, t) == valid(file) /\ imported(store, file, t) = store
justImported(file) == \E t \in 0..now : importedAt(file, t)

\* C1, as claimed: for every valid file and every starting table, importing
\* the file a second time in a row leaves exactly the table of the first
\* import.
C1_ImportTwiceIdentical ==
    \A file \in InputFiles :
        justImported(file) => imported(store, file, now) = store

\* C1, amended: the second import keeps the set of ids and the number of
\* rows, and every field of every row except createdAt of the rows made from
\* entries without a timestamp, which becomes the time of the second import;
\* the tables are identical when every entry of the file has a timestamp or
\* the clock reads the same at both imports.
C1_ImportTwice ==
    \A file \in InputFiles :
        justImported(file) =>
            LET entries == dataArrayOf(file.content)
                twice == imported(store, file, now)
            IN  /\ {r.id : r \in twice} = {r.id : r \in store}
                /\ Cardinality(twice) = Cardinality(store)
                /\ \A r \in twice : \E q \in store :
                      /\ q.id = r.id
                      /\ [r EXCEPT !.createdAt = q.createdAt] = q
                      /\ r.createdAt # q.createdAt =>
                            /\ ~hasTimestamp(r.jsonBlob)
                            /\ r.createdAt = DateOf(now)
                /\ (importedAt(file, now)
                       \/ \A i \in 1..Len(entries) : hasTimestamp(entries[i]))
                      => twice = store

\* a file with an entry without timestamp was imported, the clock moved, and
\* the file was imported again: its row carries the time of this import
C1_Witness ==
    /\ dialog.type = "success"
    /\ now > 0
    /\ \E file \in InputFiles :
          /\ importedAt(file, now)
          /\ \E r \in store : ~hasTimestamp(r.jsonBlob) /\ r.createdAt = DateOf(now)

-----------------------------------------------------------------------------
\* the rows the import of file makes now, and the last of them for an id
itemsOf(file) == itemsToSave(dataArrayOf(file.content), now)
idsOf(items) == {items[i].id : i \in 1..Len(items)}
lastItem(items, key) ==
    items[CHOOSE i \in 1..Len(items) :
            /\ items[i].id = key
            /\ \A j \in (i + 1)..Len(items) : items[j].id # key]

onePerId(rows) == \A r, q \in rows : r.id = q.id => r = q

\* C2: after any sequence of imports and soft deletes the table holds at most
\* one row per id; an import adds a row for every id that was not there and
\* replaces the row of every id that was by the newly normalized one (the
\* last of the file for that id), keeping nothing of the old row.
C2_UpsertById ==
    /\ onePerId(store)
    /\ \A file \in InputFiles :
          valid(file) =>
             LET items == itemsOf(file)
                 post == imported(store, file, now)
             IN  /\ onePerId(post)
                 /\ {r.id : r \in post} = {r.id : r \in store} \cup idsOf(items)
                 /\ \A r \in post :
                       IF r.id \in idsOf(items)
                       THEN r = lastItem(items, r.id)
                       ELSE r \in store

\* an import of two entries of one id has left one row, made from the second
C2_Witness ==
    /\ dialog.type = "success"
    /\ dialog.count = 2
    /\ \E r \in store :
          store = {r} /\ r.id = <<"7">> /\ r.jsonBlob = EntryTwillot

\* C4: handleDelete(id) on a stored row sets that row's isDeleted to 1 and
\* changes nothing else: the row stays, its other fields and all other rows
\* are as before, and the number of rows is the same.
C4_SoftDeleteFrame ==
    [][\A key \in {r.id : r \in store} :
          handleDelete(key) =>
             /\ Cardinality(store') = Cardinality(store)
             /\ \E r \in store :
                   /\ r.id = key
                   /\ store' = (store \ {r}) \cup {[r EXCEPT !.isDeleted = 1]}
             /\ \A q \in store : q.id # key => q \in store']_vars

\* one row is soft-deleted beside a row that is not
C4_Witness ==
    \E r, q \in store : r.isDeleted = 1 /\ q.isDeleted = 0

\* C6, as claimed: after an import into the empty table that succeeds, every
\* row normalized from the file is in the table and the number of rows is the
\* count returned and shown in the dialog.
C6_NothingDropped ==
    [][\A file \in InputFiles :
          (store = {} /\ handleFileUpload(file) /\ dialog'.type = "success") =>
             /\ \A i \in 1..Len(itemsOf(file)) : itemsOf(file)[i] \in store'
             /\ Cardinality(store') = dialog'.count]_vars

-----------------------------------------------------------------------------
FormatTypes == {"json", "jsonl", "csv"}
FilterTypes == {"bookmark", "like"}

\* the ids of the rows a saved file holds
exportedIds(file) ==
    LET c == file.content
    IN  CASE c.kind = "array" -> {c.items[i].id : i \in 1..Len(c.items)}
          [] c.kind = "lines" -> {c.lines[i].json.id : i \in 1..Len(c.lines)}
          [] c.kind = "csv" -> {c.rows[i][1] : i \in 1..Len(c.rows)}
          [] OTHER -> {}

\* the rows downloadMediaZip archives of the feed of an author
archived(rows, type, author) ==
    LET withMedia == mediaItemsOf(toArray(archiveInput(rows, type, author)))
    IN  {withMedia[k] : k \in 1..Len(withMedia)}

C5_RoundTrip ==
    store # {} =>
        /\ imported({}, exportData(store, "json"), now) = store
        /\ imported(store, exportData(store, "json"), now) = store

-----------------------------------------------------------------------------
\* the units whose fetch is under way, and the items they belong to
inFlight == {u \in DOMAIN fetches : fetches[u] \in {"fetching", "reading"}}
awaited == {u \in DOMAIN fetches : fetches[u] = "fetching"}
itemsInFlight == {u[1] : u \in inFlight}
allUnits == UNION {unitsOf(mediaItems, k) : k \in 1..Len(mediaItems)}
started == DOMAIN fetches # {}

RECURSIVE sumCounts(_)
sumCounts(ks) ==
    IF ks = {} THEN 0
    ELSE LET k == CHOOSE x \in ks : TRUE
         IN  countOf(mediaItems[k]) + sumCounts(ks \ {k})

\* C7, as claimed: at every moment of downloadMediaZip at most batchSize (3)
\* fetches have been issued and have not settled.
C7_AtMostBatchSizeFetches ==
    Cardinality(awaited) <= batchSize

\* C7: at every moment the fetches issued and not settled belong to at most
\* batchSize (3) items, the items of the current batch, and there are at most
\* as many of them as these items have download units.
C7_FetchesOfOneBatch ==
    /\ Cardinality(itemsInFlight) <= batchSize
    /\ itemsInFlight \subseteq (loopI + 1)..(loopI + batchSize)
    /\ Cardinality(inFlight) <= sumCounts(itemsInFlight)

\* three items have fetches under way, more fetches than batchSize
C7_Witness ==
    /\ Cardinality(itemsInFlight) = batchSize
    /\ Cardinality(awaited) > batchSize

lastCall == progress[Len(progress)]

\* C8, as claimed: a run with N units that has finished has called
\* onProgress exactly N times, with a first argument that increases strictly
\* from call to call, and the last call was onProgress(N, N).
C8_OneCallPerUnit ==
    (pc = "done" /\ started) =>
        /\ Len(progress) = totalFiles
        /\ \A k \in 1..(Len(progress) - 1) : progress[k][1] < progress[k + 1][1]
        /\ progress # <<>> /\ lastCall = <<totalFiles, totalFiles>>

\* C8: a run with N units calls onProgress(0, N) before its first fetch and
\* then once for each unit, when the unit settles: call number k is
\* onProgress(k - 1, N), and a run that has finished has made N + 1 calls, the
\* last of them onProgress(N, N).
C8_OneCallPerUnitAfterFirst ==
    started =>
        /\ Len(progress) = 1 + Cardinality({u \in DOMAIN fetches : fetches[u] \in Settled})
        /\ \A k \in 1..Len(progress) : progress[k] = <<k - 1, totalFiles>>
        /\ pc = "done" =>
              /\ Len(progress) = totalFiles + 1
              /\ lastCall = <<totalFiles, totalFiles>>

\* a run of 5 units, 2 of them failed, has returned 3 after 6 calls
C8_Witness ==
    /\ result = [kind |-> "returned", value |-> 3]
    /\ totalFiles = 5
    /\ Len(progress) = 6
    /\ lastCall = <<5, 5>>

\* the units whose response was ok and whose blob was read
fetched == {u \in DOMAIN fetches : fetches[u] \in {"ok", "unnamed"}}

\* C9, as claimed: a run that has finished has attempted every unit, and
\* when the fetch of at least one unit succeeded it has returned the number
\* of units whose fetch succeeded.
C9_FailuresAreLocal ==
    (pc = "done" /\ started) =>
        /\ DOMAIN fetches = allUnits
        /\ \A u \in allUnits : fetches[u] \in Settled
        /\ fetched # {} =>
              result = [kind |-> "returned", value |-> Cardinality(fetched)]

\* C10, as claimed: a run throws only when every batch is over and every
\* fetch has failed, and then no archive is saved; a run in which a fetch
\* succeeded saves the archive and returns the number of files in it.
C10_ThrowsOnlyWhenAllFailed ==
    (pc = "done" /\ started) =>
        /\ result.kind = "threw" =>
              /\ \A u \in allUnits : u \in DOMAIN fetches /\ fetches[u] \in Settled
              /\ saved = NoZip
        /\ IF fetched = {}
           THEN result.kind = "threw"
           ELSE /\ result.kind = "returned"
                /\ saved # NoZip
                /\ result.value = Cardinality(saved.files)

-----------------------------------------------------------------------------
\* no item of the call carries a video URL or an image URL
noMedia == \A k \in 1..Len(zipItems) : ~hasMedia(zipItems[k])

-----------------------------------------------------------------------------
\* .json and .jsonl in every letter case
RECURSIVE cased(_)
cased(word) ==
    IF word = <<>> THEN {<<>>}
    ELSE LET c == Head(word)
             C == CASE c = "j" -> "J" [] c = "s" -> "S" [] c = "o" -> "O"
                    [] c = "n" -> "N" [] c = "l" -> "L" [] OTHER -> c
         IN  {<<x>> \o rest : x \in {c, C}, rest \in cased(Tail(word))}

JsonEndings ==
    cased(<<".", "j", "s", "o", "n">>) \cup cased(<<".", "j", "s", "o", "n", "l">>)

\* endings that are neither
OtherEndings ==
    {<<".", "c", "s", "v">>, <<".", "j", "s", "o", "n", "x">>,
     <<"j", "s", "o", "n">>, <<".", "j", "s", "o">>,
     <<".", "j", "s", "o", "n", ".">>, <<".", "j", "s", "o", "n", "l", "l">>,
     <<".", "J", "S", "O", "N", ".", "t", "x", "t">>, <<".", "j", "s">>, <<>>}

Stems == {<<>>, <<"a">>, <<"a", ".", "j", "s", "o", "n">>, <<".", "j", "s", "o", "n", "l", "_">>}

FileNames == {stem \o ending : stem \in Stems, ending \in JsonEndings \cup OtherEndings}

endsInJson(name) == \E ending \in JsonEndings : endsWith(name, ending)

\* what a file may hold, whatever its name
SomeContents ==
    {[kind |-> "array", items |-> <<EntryTWE>>],
     [kind |-> "array", items |-> <<>>],
     [kind |-> "csv", rows |-> <<<<"7">>>>]}

UnsupportedFormat == "Please upload a .json or .jsonl file."

\* C12: an import of a file whose name does not end in .json or .jsonl, the
\* letters compared without regard to case, throws "Please upload a .json or
\* .jsonl file." whatever the file holds, and leaves the table as it is; a
\* name that ends so, in any letter case, is not refused for its name.
C12_UnsupportedFormat ==
    \A name \in FileNames, content \in SomeContents :
        LET done == processTwillotJson(store, [name |-> name, content |-> content], now)
        IN  IF endsInJson(name)
            THEN done.message # UnsupportedFormat
            ELSE done = [rows |-> store, ok |-> FALSE, count |-> 0,
                         message |-> UnsupportedFormat]

\* a .csv file has been refused while the table holds rows
C12_Witness ==
    /\ dialog = [type |-> "info", count |-> 0, message |-> UnsupportedFormat]
    /\ store # {}

-----------------------------------------------------------------------------
\* the values the content parses to, whole or line by line
parsedValues(content) ==
    IF parsesWhole(content) THEN dataArrayOf(content)
    ELSE LET parsed == SelectSeq(textLines(content), isJsonLine)
         IN  [i \in 1..Len(parsed) |-> parsed[i].json]

usable(content) ==
    \E i \in 1..Len(parsedValues(content)) : isObject(parsedValues(content)[i])

NoValidEntries == "No valid data found in file."

\* C13, as claimed: an import of a .json or .jsonl file that parses to no
\* usable entry (an empty array, no line that parses, only values that are no
\* objects) throws "No valid data found in file." and writes nothing, and no
\* stored row is made from a value that is no entry object.
C13_NoValidEntries ==
    /\ \A r \in store : isObject(r.jsonBlob)
    /\ \A file \in InputFiles :
          (nameMatches(file.name) /\ ~usable(file.content)) =>
             processTwillotJson(store, file, now) =
                [rows |-> store, ok |-> FALSE, count |-> 0, message |-> NoValidEntries]

-----------------------------------------------------------------------------
\* the entry has been normalized
isNormalized == normalized # NoItem

\* the entry carries an id under one of the recognized keys
carriesId(e) == \E key \in IdKeys : truthySeq(e, key)

\* C14, as claimed: the id of every normalized record is not empty; it is
\* "unknown_id" when the entry carries no id under id, tweet_id or tweetId,
\* and taking the prefix bookmark_ off never leaves the empty string.
C14_IdNeverEmpty ==
    isNormalized =>
        /\ normalized.id # <<>>
        /\ ~carriesId(rawEntry) => normalized.id = unknown_id

-----------------------------------------------------------------------------
Digits == {"0", "1", "2", "3", "4", "5", "6", "7", "8", "9"}
isNumeric(seg) == seg # <<>> /\ \A n \in 1..Len(seg) : seg[n] \in Digits
lastSeg(shape) == shape.segs[Len(shape.segs)]

\* the entry carries the id of this shape under key, the first of the
\* recognized keys that holds an id
hasIdOf(e, key, shape) ==
    /\ truthySeq(e, key)
    /\ e[key] = idString(shape)
    /\ key = "tweet_id" => ~truthySeq(e, "id")
    /\ key = "tweetId" => ~truthySeq(e, "id") /\ ~truthySeq(e, "tweet_id")

\* the entry with the bare id in the place of its id
bareTwin(e, key, shape) == [e EXCEPT ![key] = lastSeg(shape)]

\* C15, as claimed: an id made of bookmark_ and segments of which the last is
\* numeric normalizes to that last segment; every other id is kept as it is.
C15_NumericSuffixOnly ==
    isNormalized =>
        \A key \in IdKeys, shape \in IdShapes :
            hasIdOf(rawEntry, key, shape) =>
                normalized.id = IF shape.prefixed /\ isNumeric(lastSeg(shape))
                                THEN lastSeg(shape)
                                ELSE idString(shape)

\* C15: an id that starts with bookmark_ normalizes to what follows its last
\* underscore, numeric or not, empty or not; an id that does not start with
\* bookmark_ is kept as it is.  An entry with a prefixed id and the entry with
\* the bare numeric id in its place get one id and share one stored row.
C15_LastSegment ==
    isNormalized =>
        \A key \in IdKeys, shape \in IdShapes :
            hasIdOf(rawEntry, key, shape) =>
                /\ normalized.id = IF shape.prefixed THEN lastSeg(shape)
                                   ELSE idString(shape)
                /\ (shape.prefixed /\ isNumeric(lastSeg(shape))) =>
                      LET twin == tweetItem(bareTwin(rawEntry, key, shape), now)
                      IN  /\ twin.id = normalized.id
                          /\ Cardinality(bulkPut({}, <<normalized, twin>>)) = 1

\* bookmark_a_99 has been normalized to 99
C15_Witness ==
    /\ isNormalized
    /\ has(rawEntry, "tweet_id")
    /\ rawEntry.tweet_id = bookmark_ \o <<"a", "_", "9", "9">>
    /\ normalized.id = <<"9", "9">>

-----------------------------------------------------------------------------
\* C16, as claimed: the createdAt of every normalized record is a valid
\* instant, whatever the timestamp fields of the entry hold; it is the time
\* of the import when the entry has no timestamp field.
C16_CreatedAtValid ==
    isNormalized =>
        /\ normalized.createdAt.valid
        /\ (~has(rawEntry, "createdAt") /\ ~has(rawEntry, "created_at")) =>
              \E t \in 0..now : normalized.createdAt = DateOf(t)

-----------------------------------------------------------------------------
\* C17, as claimed: in every normalized record, from whichever schema, whose
\* mediaUrl is defined and whose mediaUrls is not empty, the first of
\* mediaUrls is mediaUrl.
C17_FirstMediaUrl ==
    (/\ isNormalized
     /\ normalized.mediaUrl # Undefined
     /\ normalized.mediaUrls # <<>>) =>
        normalized.mediaUrls[1] = normalized.mediaUrl

-----------------------------------------------------------------------------
(* ActivityGraph: streak, gap, weekend share *)

\* the statistics of the selected year are on display
shown == graphMemo.kind = "memo"

\* the days of the selected year on which a record of the graph was created
activeDaysOfYear ==
    {dateStr(graphItems[k].createdAt) :
        k \in {j \in 1..Len(graphItems) :
                  getYear(graphItems[j].createdAt) = selectedYear}}

\* the records of the selected year
recordsOfYear ==
    {k \in 1..Len(graphItems) : getYear(graphItems[k].createdAt) = selectedYear}

\* the lengths of the runs of consecutive active days
runLengths ==
    {L \in 0..Cardinality(activeDaysOfYear) :
        L > 0 => \E d \in activeDaysOfYear : \A j \in 0..(L - 1) : d + j \in activeDaysOfYear}

\* the numbers of inactive days between two consecutive active days
gapLengths ==
    {0} \cup {b - a - 1 : <<a, b>> \in
                 {ab \in activeDaysOfYear \X activeDaysOfYear :
                     /\ ab[1] < ab[2]
                     /\ \A d \in activeDaysOfYear : ~(ab[1] < d /\ d < ab[2])}}

greatest(S) == CHOOSE x \in S : \A y \in S : y <= x

\* C18: whenever the graph shows statistics, its longest streak is the length
\* of the longest run of consecutive days of the selected year on each of
\* which a record was created: 0 without an active day, 1 with one active day
C18_LongestStreak ==
    shown =>
        /\ graphMemo.stats.maxStreak = greatest(runLengths)
        /\ activeDaysOfYear = {} => graphMemo.stats.maxStreak = 0
        /\ Cardinality(activeDaysOfYear) = 1 => graphMemo.stats.maxStreak = 1

\* the year 2024 is shown with the active days 01-01, 01-02, 01-03 and 01-10,
\* and the longest streak is 3
C18_Witness ==
    /\ shown
    /\ selectedYear = 2024
    /\ activeDaysOfYear = {Jan1, Jan1 + 1, Jan1 + 2, Jan1 + 9}
    /\ graphMemo.stats.maxStreak = 3

\* C19: whenever the graph shows statistics, its longest gap is the largest
\* number of inactive days between two consecutive active days of the
\* selected year, which is the largest difference of two consecutive active
\* days less one; it is 0 with fewer than two active days and when all the
\* active days are adjacent
C19_LongestGap ==
    shown =>
        /\ graphMemo.stats.maxGap = greatest(gapLengths)
        /\ Cardinality(activeDaysOfYear) < 2 => graphMemo.stats.maxGap = 0
        /\ (\A a \in activeDaysOfYear, b \in activeDaysOfYear :
                a < b => \A d \in a..b : d \in activeDaysOfYear)
              => graphMemo.stats.maxGap = 0

\* the year 2024 is shown with the active days 01-01, 01-02, 01-03 and 01-10,
\* and the longest gap is 6
C19_Witness ==
    /\ shown
    /\ selectedYear = 2024
    /\ activeDaysOfYear = {Jan1, Jan1 + 1, Jan1 + 2, Jan1 + 9}
    /\ graphMemo.stats.maxGap = 6

\* the records of the selected year created on a Saturday or a Sunday;
\* 2024-01-01 was a Monday
weekendRecords ==
    {k \in recordsOfYear : (dateStr(graphItems[k].createdAt) - Jan1) % 7 \in {5, 6}}

\* C20: whenever the graph shows statistics, the weekend percentage is the
\* integer nearest to 100 times the weekend records of the selected year over
\* all the records of that year; it is 0 when the year has no record, and it
\* lies between 0 and 100
C20_WeekendPercent ==
    shown =>
        LET percent == graphMemo.stats.weekendPercent
            total == Cardinality(recordsOfYear)
            weekend == Cardinality(weekendRecords)
        IN  /\ percent \in 0..100
            /\ total = 0 => percent = 0
            /\ total > 0 =>
                  /\ 2 * (100 * weekend - percent * total) <= total
                  /\ 2 * (percent * total - 100 * weekend) <= total

\* the year 2024 is shown with 4 records, 1 of them of a Saturday, and the
\* weekend percentage is 25
C20_Witness ==
    /\ shown
    /\ selectedYear = 2024
    /\ Cardinality(recordsOfYear) = 4
    /\ \E k \in recordsOfYear :
          /\ dateStr(graphItems[k].createdAt) = Jan1 + 5
          /\ weekendRecords = {k}
    /\ graphMemo.stats.weekendPercent = 25

-----------------------------------------------------------------------------
(* Export and the deleted rows *)

\* C21, as the README has it: the file the Export action saves includes the
\* items the user has deleted, so every row with isDeleted = 1 is in the
\* export of the table, in each format.
C21_DeletedInBackup ==
    \A formatType \in FormatTypes :
        exportData(store, formatType) # NoFile =>
            \A r \in store :
                r.isDeleted = 1 => r.id \in exportedIds(exportData(store, formatType))

-----------------------------------------------------------------------------
(* An import over a deleted row *)

\* the row of an id
rowOf(rows, key) == CHOOSE r \in rows : r.id = key

\* the files whose import succeeds and holds an entry that resolves to the id
filesWith(key) ==
    {file \in InputFiles : valid(file) /\ key \in idsOf(itemsOf(file))}

-----------------------------------------------------------------------------
(* The batches of downloadMediaZip *)

\* the number of the batch of a unit, from 0
batchNo(u) == (u[1] - 1) \div batchSize

\* the units of the batches before that of u
unitsBefore(u) == {v \in allUnits : batchNo(v) < batchNo(u)}

\* C23: when a fetch of a batch has been issued, every fetch of every batch
\* before it has been issued and has settled, by success or by failure; the
\* fetches under way are those of one batch, the current one.
C23_BatchBarrier ==
    /\ \A u \in DOMAIN fetches :
          \A v \in unitsBefore(u) : v \in DOMAIN fetches /\ fetches[v] \in Settled
    /\ \A u \in inFlight : batchNo(u) * batchSize = loopI

\* the second batch has fetches under way after a first batch in which a
\* fetch of the last item succeeded and a fetch of the first item failed
C23_Witness ==
    /\ loopI = batchSize
    /\ \E u \in inFlight : batchNo(u) = 1
    /\ \E u, v \in DOMAIN fetches :
          /\ u[1] = 1 /\ fetches[u] = "failed"
          /\ v[1] = batchSize /\ fetches[v] = "ok"

-----------------------------------------------------------------------------
(* The total of downloadMediaZip *)

\* the records of the input with a videoUrl, and the others
videoRecords == {k \in 1..Len(zipItems) : zipItems[k].videoUrl \notin {Undefined, ""}}
otherRecords == (1..Len(zipItems)) \ videoRecords

\* the number of image URLs of a record
imageCount(record) ==
    IF record.mediaUrls # <<>> THEN Len(record.mediaUrls)
    ELSE IF record.mediaUrl \notin {Undefined, ""} THEN 1 ELSE 0

RECURSIVE imagesOf(_)
imagesOf(ks) ==
    IF ks = {} THEN 0
    ELSE LET k == CHOOSE x \in ks : TRUE
         IN  imageCount(zipItems[k]) + imagesOf(ks \ {k})

\* C24: the total is known when the first fetch is issued and was reported
\* by the first onProgress call; it is the number of records with a videoUrl
\* plus the image URLs of the other records; the one fetch of a record with a
\* videoUrl is that of the video; and a run that has finished has issued as
\* many fetches as the total.
C24_TotalUpFront ==
    started =>
        /\ totalFiles = Cardinality(videoRecords) + imagesOf(otherRecords)
        /\ progress[1] = <<0, totalFiles>>
        /\ \A u \in DOMAIN fetches :
              hasVideo(mediaItems[u[1]]) =>
                  /\ unitUrl(mediaItems, u) = mediaItems[u[1]].videoUrl
                  /\ \A v \in DOMAIN fetches : v[1] = u[1] => v = u
        /\ Cardinality(DOMAIN fetches) <= totalFiles
        /\ pc = "done" => Cardinality(DOMAIN fetches) = totalFiles

\* a run has finished on records among which one has a video and an image
\* and one has two images: 3 fetches for the two of them
C24_Witness ==
    /\ pc = "done"
    /\ started
    /\ Cardinality(DOMAIN fetches) = totalFiles
    /\ \E k, j \in 1..Len(mediaItems) :
          /\ hasVideo(mediaItems[k])
          /\ mediaItems[k].mediaUrls # <<>>
          /\ ~hasVideo(mediaItems[j])
          /\ Len(mediaItems[j].mediaUrls) = 2
          /\ Cardinality({u \in DOMAIN fetches : u[1] \in {k, j}}) = 3

-----------------------------------------------------------------------------
(* Numeric timestamps *)

\* the entry under the callback has a number as created_at, and no createdAt
numericTimestamp ==
    /\ rawEntry # NoEntry
    /\ normalized # NoItem
    /\ ~has(rawEntry, "createdAt")
    /\ has(rawEntry, "created_at")
    /\ has(rawEntry.created_at, "num")

\* C25, as claimed: a number t in created_at is taken as seconds when it is
\* below the limit (createdAt = t * 1000) and as milliseconds otherwise
\* (createdAt = t), for every t.
C25_SecondsOrMilliseconds ==
    numericTimestamp =>
        LET t == rawEntry.created_at.num
        IN  normalized.createdAt = DateOf(IF t < SecondsLimit THEN t * 1000 ELSE t)

-----------------------------------------------------------------------------
(* The type of a record *)

\* the entry under the callback has been normalized
isMapped == rawEntry # NoEntry /\ normalized # NoItem

\* C26, as claimed: the type of the record is the type of the entry when the
\* entry has one (bookmark, like or tweet); otherwise it is bookmark when the
\* bookmarked flag is set, like when the favorited flag is set, and bookmark
\* when neither is.
C26_ExplicitTypeWins ==
    isMapped =>
        IF has(rawEntry, "type") THEN normalized.type = rawEntry.type
        ELSE IF has(rawEntry, "bookmarked") /\ rawEntry.bookmarked
             THEN normalized.type = "bookmark"
        ELSE IF has(rawEntry, "favorited") /\ rawEntry.favorited
             THEN normalized.type = "like"
        ELSE normalized.type = "bookmark"

-----------------------------------------------------------------------------
(* findBestVideo *)

\* the variants of the video of the entry under the callback, and the
\* positions of those of content type video/mp4
variantsOf(entry) == entry.media_items[1].video_info.variants
mp4sOf(vs) == {k \in 1..Len(vs) : vs[k].content_type = "video/mp4"}

\* the bitrate a variant is tagged with, 0 for one without a tag
tagOf(v) == IF "bitrate" \in DOMAIN v THEN v.bitrate ELSE 0

\* C27: the videoUrl findBestVideo gives for a media item is the URL of the
\* video/mp4 variant of the highest bitrate, the first of the list among those
\* of that bitrate; it is never a variant of another content type, and it is
\* undefined when no variant is video/mp4.
C27_BestVideo ==
    (isMapped /\ rawEntry \in VideoEntries) =>
        LET vs == variantsOf(rawEntry)
            mp4s == mp4sOf(vs)
        IN  IF mp4s = {} THEN normalized.videoUrl = Undefined
            ELSE \E k \in mp4s :
                    /\ \A j \in mp4s : tagOf(vs[j]) <= tagOf(vs[k])
                    /\ \A j \in mp4s : j < k => tagOf(vs[j]) < tagOf(vs[k])
                    /\ normalized.videoUrl = vs[k].url

\* the variants are MP4 of bitrate 1, an HLS playlist of bitrate 3, and MP4
\* of bitrate 2 twice: the first of the two is taken
C27_Witness ==
    /\ isMapped
    /\ rawEntry \in VideoEntries
    /\ Len(variantsOf(rawEntry)) = 3
    /\ variantsOf(rawEntry)[1].url = "v1"
    /\ variantsOf(rawEntry)[2].url = "v3"
    /\ variantsOf(rawEntry)[3].url = "v2"
    /\ normalized.videoUrl = "v3"

-----------------------------------------------------------------------------
(* The files of the archive *)

\* the records of the input have distinct ids
distinctIds ==
    \A k, j \in 1..Len(zipItems) : zipItems[k].id = zipItems[j].id => k = j

\* C28, as claimed: on records of distinct ids the folder of the archive
\* holds one file for each unit that has succeeded, so successCount files,
\* and so does the archive that is saved.
C28_OneFilePerSuccess ==
    distinctIds =>
        /\ Cardinality(folder) = successCount
        /\ saved # NoZip => Cardinality(saved.files) = successCount

-----------------------------------------------------------------------------
(* The end of downloadMediaZip *)

\* the call has returned a count or has thrown
finished == pc = "done" /\ result.kind \in {"returned", "threw"}

\* C29: when every fetch that is issued settles, the call finishes, by
\* returning a count or by throwing, and when it has started fetching it has
\* by then issued the fetches of every batch, whatever failed in the batches
\* before.
C29_Finishes ==
    <>(finished /\ (started => DOMAIN fetches = allUnits))

\* the call has returned after a first batch in which every fetch failed and
\* a second batch in which one succeeded
C29_Witness ==
    /\ finished
    /\ result.kind = "returned"
    /\ \A u \in DOMAIN fetches : batchNo(u) = 0 => fetches[u] = "failed"
    /\ \E u \in DOMAIN fetches : batchNo(u) = 1 /\ fetches[u] = "ok"

-----------------------------------------------------------------------------
(* The years of the selector *)

\* the years of the records of the graph
yearsOfRecords == {getYear(graphItems[k].createdAt) : k \in 1..Len(graphItems)}

\* C30, as claimed: the list of years holds the current year and the year of
\* every record, holds no year twice, and is in descending order, records
\* dated after the current year included.
C30_YearsDescending ==
    shown =>
        LET years == graphMemo.availableYears
        IN  /\ \E n \in 1..Len(years) : years[n] = currentYear
            /\ \A y \in yearsOfRecords : \E n \in 1..Len(years) : years[n] = y
            /\ \A n, m \in 1..Len(years) : n < m => years[n] > years[m]

====
